---- MODULE Spec2Model ----
(***************************************************************************)
(* Model of src/logger.py: the column-aligning MyFormatter and the         *)
(* setup_logger assembly of the "AppLogger" logger with its console and    *)
(* file sinks.                                                             *)
(*                                                                         *)
(* Text is modelled as a sequence of one-character strings, so that        *)
(* lengths, offsets and the occurrence of the escape character are         *)
(* computed and not assumed.  A directory is a sequence of path segments.  *)
(***************************************************************************)
EXTENDS Integers, Sequences, FiniteSets, TLC

VARIABLES
    dirs,          \* the directories that exist
    files,         \* log file path -> its lines, or NoFile
    level,         \* the level of the "AppLogger" logger
    handlers,      \* the handlers registered on "AppLogger", in order
    rootHandlers,  \* the number of handlers registered on the root logger
    stdout,        \* the lines written to standard output
    rootOut,       \* the number of lines the root handlers / last resort wrote
    result,        \* outcome of the latest setup_logger call
    haveLogger,    \* some setup_logger call has returned the logger
    nCalls,        \* number of setup_logger calls made
    nEmit,         \* number of emissions made
    created,       \* folders that were missing when a returning setup got them
    lastRec,       \* the record of the latest emission (<<>> before any)
    pc,            \* thread -> its position inside setup_logger
    arg,           \* thread -> the log_folder argument of its call
    fmtColor,      \* use_color of the formatter under direct test
    fmts           \* its latest formattings (record and output), at most two

vars == <<dirs, files, level, handlers, rootHandlers, stdout, rootOut, result,
          haveLogger, nCalls, nEmit, created, lastRec, pc, arg,
          fmtColor, fmts>>

sysVars == <<dirs, files, level, handlers, rootHandlers, stdout, rootOut,
             result, haveLogger, nCalls, nEmit, created, lastRec>>
thrVars == <<pc, arg>>
fmtVars == <<fmtColor, fmts>>

-----------------------------------------------------------------------------
(* Bounds of the model *)

MaxSetup == 3
MaxEmit == 2

-----------------------------------------------------------------------------
(* Text *)

ESC == "ESC"

RECURSIVE Count(_, _)
Count(s, c) ==
    IF s = <<>> THEN 0
    ELSE (IF Head(s) = c THEN 1 ELSE 0) + Count(Tail(s), c)

RECURSIVE Spaces(_)
Spaces(n) == IF n <= 0 THEN <<>> ELSE <<" ">> \o Spaces(n - 1)

DigitChars == <<"0", "1", "2", "3", "4", "5", "6", "7", "8", "9">>

RECURSIVE Decimal(_)
Decimal(n) ==
    IF n < 10 THEN <<DigitChars[n + 1]>>
    ELSE Decimal(n \div 10) \o <<DigitChars[(n % 10) + 1]>>

\* zero-padded decimal of at least w digits (strftime's %m, %d, %H, %M, %S, %Y)
ZeroPad(n, w) ==
    LET d == Decimal(n)
    IN  [i \in 1..(w - Len(d)) |-> "0"] \o d

\* Python's f"{s:<{w}}": left-justify, pad with spaces, never truncate
LJustMutNoPad(s, w) == s
LJust(s, w) == s \o Spaces(w - Len(s))

-----------------------------------------------------------------------------
(* Levels of the logging facility *)

NOTSET == 0
DEBUG == 10
INFO == 20
WARNING == 30
ERROR == 40
CRITICAL == ERROR + 10

StdLevels == {DEBUG, INFO, WARNING, ERROR, CRITICAL}

\* record.levelname: the registered name, or "Level <n>" for an unnamed level
LevelName(no) ==
    CASE no = DEBUG    -> <<"D", "E", "B", "U", "G">>
      [] no = INFO     -> <<"I", "N", "F", "O">>
      [] no = WARNING  -> <<"W", "A", "R", "N", "I", "N", "G">>
      [] no = ERROR    -> <<"E", "R", "R", "O", "R">>
      [] no = CRITICAL -> <<"C", "R", "I", "T", "I", "C", "A", "L">>
      [] OTHER         -> <<"L", "e", "v", "e", "l", " ">> \o Decimal(no)

-----------------------------------------------------------------------------
(* MyFormatter *)

LEVEL_WIDTH == 8

GREY   == <<ESC, "[", "3", "8", ";", "2", "0", "m">>
GREEN  == <<ESC, "[", "3", "2", ";", "2", "0", "m">>
YELLOW == <<ESC, "[", "3", "3", ";", "2", "0", "m">>
RED    == <<ESC, "[", "3", "1", ";", "2", "0", "m">>
BLUE   == <<ESC, "[", "3", "4", ";", "2", "0", "m">>
RESET  == <<ESC, "[", "0", "m">>

SEP == <<" ", "|", " ">>

\* formatTime(record, '%Y-%m-%d %H:%M:%S') of a local time <<Y, m, d, H, M, S>>
FormatTime(t) ==
    ZeroPad(t[1], 4) \o <<"-">> \o ZeroPad(t[2], 2) \o <<"-">> \o ZeroPad(t[3], 2)
    \o <<" ">> \o
    ZeroPad(t[4], 2) \o <<":">> \o ZeroPad(t[5], 2) \o <<":">> \o ZeroPad(t[6], 2)

\* record.getMessage(): str(msg); a message that is no string is converted
GetMessage(record) ==
    IF record.msg.kind = "int" THEN Decimal(record.msg.num) ELSE record.msg.text

MainColorMutWarningAsError(record) ==
    IF record.levelno >= WARNING THEN RED ELSE GREY
MainColor(record) ==
    IF record.levelno = WARNING THEN YELLOW
    ELSE IF record.levelno >= ERROR THEN RED
    ELSE GREY

FormatMutAlwaysColor(use_color, record) ==
    LET timestamp == FormatTime(record.created)
        level_str == LJust(record.levelname, LEVEL_WIDTH)
        loc_str   == record.pathname \o <<":">> \o Decimal(record.lineno)
        main_color == MainColor(record)
    IN  (GREEN \o timestamp \o RESET) \o SEP \o
        (main_color \o level_str \o RESET) \o SEP \o
        (BLUE \o loc_str \o RESET) \o SEP \o
        (main_color \o GetMessage(record) \o RESET)
Format(use_color, record) ==
    LET timestamp == FormatTime(record.created)
        level_raw == record.levelname
        level_str == LJust(level_raw, LEVEL_WIDTH)
        loc_str   == record.pathname \o <<":">> \o Decimal(record.lineno)
        main_color == MainColor(record)
        date_field  == IF use_color THEN GREEN \o timestamp \o RESET
                       ELSE timestamp
        level_field == IF use_color THEN main_color \o level_str \o RESET
                       ELSE level_str
        loc_field   == IF use_color THEN BLUE \o loc_str \o RESET
                       ELSE loc_str
        msg_field   == IF use_color
                       THEN main_color \o GetMessage(record) \o RESET
                       ELSE GetMessage(record)
    IN  date_field \o SEP \o level_field \o SEP \o loc_field \o SEP \o msg_field

\* a log record as the logging facility makes it at the call site
MakeRecord(levelno, pathname, lineno, msg, t) ==
    [levelno |-> levelno, levelname |-> LevelName(levelno),
     pathname |-> pathname, lineno |-> lineno, msg |-> msg, created |-> t]

-----------------------------------------------------------------------------
(* Inputs of the formatter under direct test *)

\* a message object: a str, or an int that getMessage() converts
StrMsg(text) == [kind |-> "str", text |-> text, num |-> 0]
IntMsg(n)    == [kind |-> "int", text |-> <<>>, num |-> n]

PlainMsg == StrMsg(<<"o", "k">>)
BarMsg   == StrMsg(<<"a", " ", "|", " ", "b">>)
EscMsg   == StrMsg(RED \o <<"x">> \o RESET)

FmtLevels == StdLevels \cup {25, 100}
\* calls: <<pathname, lineno, local time>>
FmtCalls  == {<<(<<"a", ".", "p", "y">>), 7, (<<2024, 1, 5, 9, 3, 7>>)>>,
              <<(<<"/", "s", "/", "m", "a", "i", "n", ".", "p", "y">>), 104,
                (<<2026, 11, 30, 23, 59, 58>>)>>}
FmtMsgs   == {PlainMsg, BarMsg, EscMsg, IntMsg(42)}

FmtRecords ==
    {MakeRecord(l, c[1], c[2], m, c[3]) :
        l \in FmtLevels, c \in FmtCalls, m \in FmtMsgs}

-----------------------------------------------------------------------------
(* The file system *)

Folders == {<<"logs">>, <<"out">>, <<"out", "run">>}

\* os.path.join(log_folder, "log.txt")
LogFilePath(log_folder) == Append(log_folder, "log.txt")

LogFiles == {LogFilePath(d) : d \in Folders}

NoFile == [exists |-> FALSE, lines |-> <<>>]

\* os.makedirs(d, exist_ok=True): the missing segments are made outermost
\* first; deniedAt is the segment the system refuses to make (0: none)
MakeDirs(ds, d, deniedAt) ==
    LET fails == deniedAt \in 1..Len(d) /\ SubSeq(d, 1, deniedAt) \notin ds
        upto  == IF fails THEN deniedAt - 1 ELSE Len(d)
    IN  [ok |-> ~fails, dirs |-> ds \cup {SubSeq(d, 1, i) : i \in 1..upto}]

\* if not os.path.exists(log_folder): os.makedirs(log_folder, exist_ok=True)
EnsureDirMutNoParents(ds, d, deniedAt) ==
    IF d \in ds THEN [ok |-> TRUE, dirs |-> ds]
    ELSE [ok |-> deniedAt = 0, dirs |-> IF deniedAt = 0 THEN ds \cup {d} ELSE ds]
EnsureDir(ds, d, deniedAt) ==
    IF d \in ds THEN [ok |-> TRUE, dirs |-> ds] ELSE MakeDirs(ds, d, deniedAt)

\* open(path, 'a'): the file is made if missing, its lines are kept
OpenAppend(fs, path) == [fs EXCEPT ![path].exists = TRUE]

-----------------------------------------------------------------------------
(* The "AppLogger" logger and its handlers *)

\* logging.StreamHandler(sys.stdout), level INFO, MyFormatter(use_color=True)
StreamHandler ==
    [kind |-> "console", level |-> INFO, use_color |-> TRUE, path |-> <<>>]

\* logging.FileHandler(log_file_path), level DEBUG, MyFormatter(use_color=False)
FileHandler(log_file_path) ==
    [kind |-> "file", level |-> DEBUG, use_color |-> FALSE,
     path |-> log_file_path]

\* logger.hasHandlers(): this logger's handlers or, as it propagates, those of
\* its ancestors; the only ancestor of "AppLogger" is the root logger
HasHandlers(hs, rootHs) == Len(hs) > 0 \/ rootHs > 0

NumKind(hs, k) == Cardinality({i \in 1..Len(hs) : hs[i].kind = k})

\* handler.handle(record): format with the handler's formatter and write
HandlerEmit(h, record, out) ==
    LET line == Format(h.use_color, record)
    IN  IF h.kind = "console"
        THEN [out EXCEPT !.stdout = Append(@, line)]
        ELSE [out EXCEPT !.files[h.path].lines = Append(@, line)]

\* Logger.callHandlers: every handler whose level the record reaches
RECURSIVE CallHandlers(_, _, _)
CallHandlers(hs, record, out) ==
    IF hs = <<>> THEN out
    ELSE CallHandlers(Tail(hs), record,
                      IF record.levelno >= Head(hs).level
                      THEN HandlerEmit(Head(hs), record, out)
                      ELSE out)

\* Logger.getEffectiveLevel: the logger's level, or the root's WARNING
IsEnabledFor(levelno) ==
    levelno >= (IF level # NOTSET THEN level ELSE WARNING)

-----------------------------------------------------------------------------
(* Inputs of the emissions *)

EmitLevels == StdLevels
EmitMsgs   == {PlainMsg, EscMsg}
CallSite   == <<(<<"a", ".", "p", "y">>), 104>>
Now        == <<2026, 11, 2, 8, 5, 9>>

NThreads == 2
Threads == 1..NThreads

-----------------------------------------------------------------------------
(* Initial states *)

InitSys ==
    /\ dirs \in {{}, {<<"out">>}}
    /\ files = [p \in LogFiles |-> NoFile]
    /\ level = NOTSET
    /\ handlers = <<>>
    /\ rootHandlers \in {0, 1}
    /\ stdout = <<>>
    /\ rootOut = 0
    /\ result = "none"
    /\ haveLogger = FALSE
    /\ nCalls = 0
    /\ nEmit = 0
    /\ created = {}
    /\ lastRec = <<>>

InitThr ==
    /\ pc = [t \in Threads |-> "start"]
    /\ arg = [t \in Threads |-> <<"logs">>]

InitFmtIdle ==
    /\ fmtColor = FALSE
    /\ fmts = <<>>

Init == InitSys /\ InitThr /\ InitFmtIdle

-----------------------------------------------------------------------------
(* setup_logger, called from one thread: the whole call is one step *)

\* what the call leaves of the history variables
Returned(d) ==
    /\ result' = "logger"
    /\ haveLogger' = TRUE
    /\ created' = IF d \in dirs THEN created ELSE created \cup {d}

Raised ==
    /\ result' = "error"
    /\ UNCHANGED <<haveLogger, created>>

SetupLogger(log_folder, deniedAt, openOk) ==
    /\ nCalls < MaxSetup
    /\ nCalls' = nCalls + 1
    /\ LET mk == EnsureDir(dirs, log_folder, deniedAt)
           log_file_path == LogFilePath(log_folder)
       IN  /\ dirs' = mk.dirs
           /\ IF ~mk.ok
              THEN \* os.makedirs raises
                   /\ Raised
                   /\ UNCHANGED <<level, handlers, files>>
              ELSE /\ level' = DEBUG
                   /\ IF HasHandlers(handlers, rootHandlers)
                      THEN /\ Returned(log_folder)
                           /\ UNCHANGED <<handlers, files>>
                      ELSE IF ~openOk
                      THEN \* logging.FileHandler raises; the console
                           \* handler is registered already
                           /\ handlers' = Append(handlers, StreamHandler)
                           /\ Raised
                           /\ UNCHANGED files
                      ELSE /\ handlers' =
                                handlers \o
                                <<StreamHandler, FileHandler(log_file_path)>>
                           /\ files' = OpenAppend(files, log_file_path)
                           /\ Returned(log_folder)
    /\ UNCHANGED <<rootHandlers, stdout, rootOut, nEmit, lastRec>>
    /\ UNCHANGED <<thrVars, fmtVars>>

-----------------------------------------------------------------------------
(* logger.debug / info / warning / error / critical on the returned logger *)

Emit(levelno, msg) ==
    /\ haveLogger
    /\ nEmit < MaxEmit
    /\ nEmit' = nEmit + 1
    /\ LET record == MakeRecord(levelno, CallSite[1], CallSite[2], msg, Now)
           out    == CallHandlers(handlers, record,
                                  [stdout |-> stdout, files |-> files])
       IN  /\ lastRec' = <<record>>
           /\ IF IsEnabledFor(levelno)
              THEN /\ stdout' = out.stdout
                   /\ files' = out.files
                   /\ rootOut' =
                        IF rootHandlers > 0 THEN rootOut + rootHandlers
                        ELSE IF handlers = <<>> /\ levelno >= WARNING
                             THEN rootOut + 1   \* logging.lastResort
                             ELSE rootOut
              ELSE UNCHANGED <<stdout, files, rootOut>>
    /\ UNCHANGED <<dirs, level, handlers, rootHandlers, result, haveLogger,
                   nCalls, created>>
    /\ UNCHANGED <<thrVars, fmtVars>>

Next ==
    \/ \E d \in Folders : \E deniedAt \in 0..Len(d) : \E openOk \in BOOLEAN :
          SetupLogger(d, deniedAt, openOk)
    \/ \E l \in EmitLevels : \E m \in EmitMsgs : Emit(l, m)

Spec == Init /\ [][Next]_vars

-----------------------------------------------------------------------------
(* MyFormatter under direct test: MyFormatter(use_color).format(record) *)

InitFmt ==
    /\ InitSys /\ rootHandlers = 0 /\ dirs = {}
    /\ InitThr
    /\ fmtColor \in BOOLEAN
    /\ fmts = <<>>

FormatRecord(record) ==
    /\ fmts' = (IF Len(fmts) = 2 THEN Tail(fmts) ELSE fmts) \o
               <<[rec |-> record, out |-> Format(fmtColor, record)]>>
    /\ UNCHANGED <<fmtColor, sysVars, thrVars>>

NextFmt == \E record \in FmtRecords : FormatRecord(record)

SpecFmt == InitFmt /\ [][NextFmt]_vars

-----------------------------------------------------------------------------
(* setup_logger, called once from each of several threads: one step per     *)
(* statement group.  The history variable created is kept by the            *)
(* one-thread specification only.                                           *)

Goto(t, label) == pc' = [pc EXCEPT ![t] = label]

\* the call itself
T_Call(t, log_folder) ==
    /\ pc[t] = "start"
    /\ nCalls' = nCalls + 1
    /\ arg' = [arg EXCEPT ![t] = log_folder]
    /\ Goto(t, "L74")
    /\ UNCHANGED <<dirs, files, level, handlers, rootHandlers, stdout,
                   rootOut, result, haveLogger, nEmit, created, lastRec>>
    /\ UNCHANGED fmtVars

\* lines 74-75
T_EnsureDir(t, deniedAt) ==
    /\ pc[t] = "L74"
    /\ LET mk == EnsureDir(dirs, arg[t], deniedAt)
       IN  /\ dirs' = mk.dirs
           /\ IF mk.ok
              THEN Goto(t, "L79") /\ UNCHANGED result
              ELSE Goto(t, "raised") /\ result' = "error"
    /\ UNCHANGED <<files, level, handlers, rootHandlers, stdout, rootOut,
                   haveLogger, nCalls, nEmit, created, lastRec, arg>>
    /\ UNCHANGED fmtVars

\* lines 79-80
T_GetLogger(t) ==
    /\ pc[t] = "L79"
    /\ level' = DEBUG
    /\ Goto(t, "L82")
    /\ UNCHANGED <<dirs, files, handlers, rootHandlers, stdout, rootOut,
                   result, haveLogger, nCalls, nEmit, created, lastRec, arg>>
    /\ UNCHANGED fmtVars

\* lines 82-83
T_HasHandlers(t) ==
    /\ pc[t] = "L82"
    /\ IF HasHandlers(handlers, rootHandlers)
       THEN Goto(t, "done") /\ result' = "logger" /\ haveLogger' = TRUE
       ELSE Goto(t, "L86") /\ UNCHANGED <<result, haveLogger>>
    /\ UNCHANGED <<dirs, files, level, handlers, rootHandlers, stdout,
                   rootOut, nCalls, nEmit, created, lastRec, arg>>
    /\ UNCHANGED fmtVars

\* lines 86-89
T_AddConsole(t) ==
    /\ pc[t] = "L86"
    /\ handlers' = Append(handlers, StreamHandler)
    /\ Goto(t, "L92")
    /\ UNCHANGED <<dirs, files, level, rootHandlers, stdout, rootOut,
                   result, haveLogger, nCalls, nEmit, created, lastRec, arg>>
    /\ UNCHANGED fmtVars

\* lines 92-94
T_OpenFile(t, openOk) ==
    /\ pc[t] = "L92"
    /\ IF openOk
       THEN /\ files' = OpenAppend(files, LogFilePath(arg[t]))
            /\ Goto(t, "L95")
            /\ UNCHANGED result
       ELSE /\ Goto(t, "raised")
            /\ result' = "error"
            /\ UNCHANGED files
    /\ UNCHANGED <<dirs, level, handlers, rootHandlers, stdout, rootOut,
                   haveLogger, nCalls, nEmit, created, lastRec, arg>>
    /\ UNCHANGED fmtVars

\* lines 95-97
T_AddFile(t) ==
    /\ pc[t] = "L95"
    /\ handlers' = Append(handlers, FileHandler(LogFilePath(arg[t])))
    /\ Goto(t, "done")
    /\ result' = "logger"
    /\ haveLogger' = TRUE
    /\ UNCHANGED <<dirs, files, level, rootHandlers, stdout, rootOut,
                   nCalls, nEmit, created, lastRec, arg>>
    /\ UNCHANGED fmtVars

NextConc ==
    \/ \E t \in Threads : \E d \in Folders : T_Call(t, d)
    \/ \E t \in Threads : \E deniedAt \in 0..Len(arg[t]) :
          T_EnsureDir(t, deniedAt)
    \/ \E t \in Threads : T_GetLogger(t)
    \/ \E t \in Threads : T_HasHandlers(t)
    \/ \E t \in Threads : T_AddConsole(t)
    \/ \E t \in Threads : \E openOk \in BOOLEAN : T_OpenFile(t, openOk)
    \/ \E t \in Threads : T_AddFile(t)

SpecConc == Init /\ [][NextConc]_vars

-----------------------------------------------------------------------------
(* Reading a formatted line back *)

\* the first index >= i at which the separator " | " begins, 0 if none
FindSep(s, i) ==
    LET at == {j \in i..(Len(s) - 2) : SubSeq(s, j, j + 2) = SEP}
    IN  IF at = {} THEN 0 ELSE CHOOSE j \in at : \A k \in at : j <= k

\* the four fields of a line: the first three separators split it
Fields(s) ==
    LET a == FindSep(s, 1)
        b == FindSep(s, a + 3)
        c == FindSep(s, b + 3)
    IN  <<SubSeq(s, 1, a - 1), SubSeq(s, a + 3, b - 1),
          SubSeq(s, b + 3, c - 1), SubSeq(s, c + 3, Len(s))>>

\* the number of characters before the location field
LocOffset(s) == FindSep(s, FindSep(s, 1) + 3) + 2

\* the field is the color code, some text, and the reset code
Wrapped(f, color) ==
    /\ Len(f) >= Len(color) + Len(RESET)
    /\ SubSeq(f, 1, Len(color)) = color
    /\ SubSeq(f, Len(f) - Len(RESET) + 1, Len(f)) = RESET

LocText(record) == record.pathname \o <<":">> \o Decimal(record.lineno)

Prefixes(d) == {SubSeq(d, 1, i) : i \in 1..Len(d)}

TwoSinks(hs) ==
    /\ Len(hs) = 2
    /\ NumKind(hs, "console") = 1
    /\ NumKind(hs, "file") = 1

RECURSIVE SumLines(_, _)
SumLines(fs, ps) ==
    IF ps = {} THEN 0
    ELSE LET p == CHOOSE q \in ps : TRUE
         IN  Len(fs[p].lines) + SumLines(fs, ps \ {p})

IsSetupStep == nCalls' = nCalls + 1
IsEmitStep == nEmit' = nEmit + 1

-----------------------------------------------------------------------------
(* C1: after a setup_logger call has returned the logger, the logger has   *)
(* exactly two sinks registered, one console and one file sink.            *)
(* The code does not keep this.                                            *)
C1_ExactlyTwoSinksAfterSetup ==
    result = "logger" => TwoSinks(handlers)

(* C2: every emission at one of the five levels adds exactly one line to   *)
(* the file sink, and one line to the console if the level is INFO or      *)
(* above and none if it is DEBUG.  The code does not keep this.            *)
C2_PerSinkFiltering ==
    [][IsEmitStep =>
        /\ SumLines(files', LogFiles) = SumLines(files, LogFiles) + 1
        /\ Len(stdout') =
             Len(stdout) + (IF lastRec'[1].levelno >= INFO THEN 1 ELSE 0)
      ]_vars

(* C3: for one color mode, any two formatted records whose level names are *)
(* at most 8 characters long have their location field begin at the same   *)
(* character offset, and the location field is what begins there.          *)
C3_ColumnAlignment ==
    \A i \in 1..Len(fmts) : \A j \in 1..Len(fmts) :
        (/\ Len(fmts[i].rec.levelname) <= LEVEL_WIDTH
         /\ Len(fmts[j].rec.levelname) <= LEVEL_WIDTH)
        => /\ LocOffset(fmts[i].out) = LocOffset(fmts[j].out)
           /\ LET off == LocOffset(fmts[i].out)
                  loc == IF fmtColor
                         THEN BLUE \o LocText(fmts[i].rec) \o RESET
                         ELSE LocText(fmts[i].rec)
              IN  SubSeq(fmts[i].out, off + 1, off + Len(loc)) = loc

C3_Witness ==
    /\ Len(fmts) = 2
    /\ fmts[1].rec.levelname = LevelName(INFO)
    /\ fmts[2].rec.levelname = LevelName(WARNING)
    /\ fmtColor

(* C4, as claimed: no line of a log file contains the escape character.    *)
C4_NoEscapeInFile ==
    \A p \in LogFiles : \A i \in 1..Len(files[p].lines) :
        Count(files[p].lines[i], ESC) = 0

(* C4, amended: the formatter with color mode off adds no escape sequence: *)
(* every line an emission appends to a log file holds exactly the escape   *)
(* characters of the record's message and path name, so none when they     *)
(* hold none.                                                              *)
C4_FileFormatterAddsNoEscape ==
    [][IsEmitStep =>
        \A p \in LogFiles :
            \A i \in (Len(files[p].lines) + 1)..Len(files'[p].lines) :
                Count(files'[p].lines[i], ESC) =
                    Count(GetMessage(lastRec'[1]), ESC)
                    + Count(lastRec'[1].pathname, ESC)
      ]_vars

C4_Witness ==
    /\ lastRec # <<>>
    /\ \E p \in LogFiles :
          /\ Len(files[p].lines) = 2
          /\ Count(files[p].lines[1], ESC) = 0
          /\ Count(files[p].lines[2], ESC) > 0

(* C5: with color mode on, the level and message fields are wrapped in the *)
(* color of the severity (WARNING yellow, ERROR and CRITICAL red, DEBUG    *)
(* and INFO grey), the same for both; the timestamp is wrapped in green    *)
(* and the location in blue; each field ends with the reset code.          *)
C5_ColorBySeverity ==
    fmtColor =>
        \A i \in 1..Len(fmts) :
            LET f == Fields(fmts[i].out)
                name == fmts[i].rec.levelname
            IN  /\ Wrapped(f[1], GREEN)
                /\ Wrapped(f[3], BLUE)
                /\ \E c \in {GREY, YELLOW, RED} :
                      Wrapped(f[2], c) /\ Wrapped(f[4], c)
                /\ name = LevelName(WARNING) => Wrapped(f[2], YELLOW)
                /\ name \in {LevelName(ERROR), LevelName(CRITICAL)}
                      => Wrapped(f[2], RED)
                /\ name \in {LevelName(DEBUG), LevelName(INFO)}
                      => Wrapped(f[2], GREY)

C5_Witness ==
    /\ fmtColor
    /\ Len(fmts) = 2
    /\ fmts[1].rec.levelno = WARNING
    /\ fmts[2].rec.levelno = CRITICAL
    /\ Fields(fmts[1].out)[4] = YELLOW \o GetMessage(fmts[1].rec) \o RESET

(* C6: a setup_logger call that fails leaves the registered sinks as they  *)
(* were before the call.  The code does not keep this.                     *)
C6_SetupFailureAtomic ==
    [][(IsSetupStep /\ result' = "error") => handlers' = handlers]_vars

(* C7, as claimed, for a logger whose two sinks are registered and a root  *)
(* logger without handlers: after an emission, every folder that was       *)
(* missing when a returning setup_logger call got it holds a non-empty     *)
(* log.txt.                                                                *)
C7_EveryNewFolderGetsLog ==
    [][(IsEmitStep /\ rootHandlers = 0 /\ TwoSinks(handlers)) =>
        \A d \in created :
            /\ d \in dirs'
            /\ files'[LogFilePath(d)].exists
            /\ files'[LogFilePath(d)].lines # <<>>
      ]_vars

(* C7, amended: a setup_logger call that returns has created its folder    *)
(* with the missing parents; after an emission the log.txt of every        *)
(* registered file sink is non-empty, and a log.txt is non-empty only in   *)
(* the folder of a registered file sink: the folder of the call that       *)
(* registered it, not that of a later call.                                *)
C7_FolderCreatedLogInSinkFolder ==
    [][/\ \A d \in created' : Prefixes(d) \subseteq dirs'
       /\ IsEmitStep =>
            /\ \A i \in 1..Len(handlers) :
                  handlers[i].kind = "file" =>
                      /\ files'[handlers[i].path].exists
                      /\ files'[handlers[i].path].lines # <<>>
            /\ \A d \in Folders :
                  files'[LogFilePath(d)].lines # <<>> =>
                      /\ d \in dirs'
                      /\ \E i \in 1..Len(handlers) :
                            handlers[i] = FileHandler(LogFilePath(d))
      ]_vars

C7_Witness ==
    /\ nEmit > 0
    /\ <<"out", "run">> \in created
    /\ {<<"out">>, <<"out", "run">>} \subseteq dirs
    /\ ~files[LogFilePath(<<"out", "run">>)].exists
    /\ <<"logs">> \in created
    /\ files[LogFilePath(<<"logs">>)].lines # <<>>

(* C8: once both sinks are registered, a further setup_logger call that    *)
(* returns the logger leaves the level, the sinks, the log files and the   *)
(* directories unchanged.  The code does not keep this.                    *)
C8_RepeatedSetupNoOp ==
    [][(IsSetupStep /\ TwoSinks(handlers) /\ result' = "logger") =>
        UNCHANGED <<level, handlers, files, dirs>>
      ]_vars

(* C9: when every thread's setup_logger call has returned, and the root    *)
(* logger has no handlers, the logger has exactly one console and one file *)
(* sink.  The code does not keep this.                                     *)
C9_ConcurrentSetupTwoSinks ==
    (rootHandlers = 0 /\ \A t \in Threads : pc[t] = "done")
        => TwoSinks(handlers)

(* C10: when the first setup_logger call of the process returns the        *)
(* logger, both sinks are registered, whatever the root logger holds.      *)
(* The code does not keep this.                                            *)
C10_FirstSetupRegistersSinks ==
    (nCalls = 1 /\ result = "logger") => TwoSinks(handlers)

====
